---- MODULE Spec2Model ----
(***************************************************************************)
(* The two Sublime Text commands of clarkep/cpick:                         *)
(*   CPickSublimeText/plugin.py      OpenCpickOnSelection.run              *)
(*   QuickPickSublimeText/plugin.py  OpenQuickpickOnSelection.run          *)
(* The two files differ only in the name of the tool they start.           *)
(*                                                                         *)
(* Strings are sequences of one-character strings, so that formatting and  *)
(* command-line quoting are computed character by character.  The token    *)
(* "U+00E9" stands for one character (one buffer position) whose UTF-8     *)
(* encoding is two bytes long.                                             *)
(***************************************************************************)
EXTENDS Integers, Sequences, FiniteSets, TLC

VARIABLES
    osName,       \* os.name of the host's Python: "posix" or "nt"
    plugin,       \* which of the two extensions the command belongs to
    toolOnPath,   \* whether the shell can find and execute the tool
    text,         \* the view's buffer (line terminators are one "\n" each)
    lineEndings,  \* view.line_endings()
    fileName,     \* view.file_name(): None or a path
    sel,          \* view.sel(): the ordered sequence of Ranges
    pc,           \* "idle" (no invocation running) or "loop" (inside run)
    i,            \* position of the for loop: index of the next Range
    attempts,     \* the Popen calls of the current / most recent invocation
    procs,        \* status of the processes those calls started
    result,       \* how the most recent invocation ended
    prev          \* attempts and result of the invocation before that one

host == <<osName, plugin, toolOnPath, text, lineEndings, fileName, sel>>
vars == <<osName, plugin, toolOnPath, text, lineEndings, fileName, sel,
          pc, i, attempts, procs, result, prev>>

(***************************************************************************)
(* Bounds of the model.                                                    *)
(***************************************************************************)
MaxLen == 2      \* longest buffer over the full alphabet
MaxBlank == 5    \* length of the buffer made of line terminators only
MaxSel == 3      \* most Ranges in a selection

NL == "\n"
Wide == "U+00E9"
Chars == {"a", Wide, NL}
LineEndings == {"Unix", "Windows", "CR"}

SeqsUpTo(S, n) == UNION {[1..k -> S] : k \in 0..n}

BlankText == [j \in 1..MaxBlank |-> NL]

Texts == SeqsUpTo(Chars, MaxLen) \cup {BlankText}

SampleText == <<"a", NL, "a">>

\* A Range has an anchor a and an active end b, in either order.  The host
\* keeps the Ranges of a selection sorted by position and disjoint.
Regions(L) == [a : 0..L, b : 0..L]

Begin(r) == IF r.a < r.b THEN r.a ELSE r.b

End(r) == IF r.a < r.b THEN r.b ELSE r.a

\* The selections of at most n Ranges that all lie at or after position lo.
RECURSIVE SelectionsFrom(_, _, _)
SelectionsFrom(lo, L, n) ==
    {<<>>} \cup
    (IF n = 0 THEN {}
     ELSE UNION {{<<r>> \o s : s \in SelectionsFrom(End(r) + 1, L, n - 1)} :
                    r \in {q \in Regions(L) : Begin(q) >= lo}})

Selections(L) == SelectionsFrom(0, L, MaxSel)

None == [some |-> FALSE, val |-> <<>>]
Some(p) == [some |-> TRUE, val |-> p]

FileNames == {None, Some(<<"/", "f">>), Some(<<"/", "a", " ", "@", "1">>)}

(***************************************************************************)
(* view.rowcol(b): the zero-based row and column of buffer position b.     *)
(***************************************************************************)
RECURSIVE RowOf(_, _)
RowOf(t, b) ==
    IF b = 0 THEN 0
    ELSE RowOf(t, b - 1) + (IF t[b] = NL THEN 1 ELSE 0)

RECURSIVE LineStart(_, _)
LineStart(t, b) ==
    IF b = 0 THEN 0
    ELSE IF t[b] = NL THEN b
    ELSE LineStart(t, b - 1)

RowCol(t, b) == <<RowOf(t, b), b - LineStart(t, b)>>

(***************************************************************************)
(* Lines 11-14: b = r.a; row, col = view.rowcol(b);                        *)
(*              if view.line_endings() == "Windows": b += row              *)
(***************************************************************************)
OffsetNonUnix(t, le, r) ==
    LET b == r.a
        row == RowCol(t, b)[1]
    IN  IF le # "Unix" THEN b + row ELSE b

Offset(t, le, r) ==
    LET b == r.a
        row == RowCol(t, b)[1]
    IN  IF le = "Windows" THEN b + row ELSE b

(***************************************************************************)
(* Line 15: "{}@{}".format(view.file_name(), b)                            *)
(***************************************************************************)
Digits == <<"0", "1", "2", "3", "4", "5", "6", "7", "8", "9">>

RECURSIVE IntStr(_)
IntStr(n) ==
    IF n < 10 THEN <<Digits[n + 1]>>
    ELSE IntStr(n \div 10) \o <<Digits[(n % 10) + 1]>>

PyStrEmptyNone(x) == IF x.some THEN x.val ELSE <<>>

PyStr(x) == IF x.some THEN x.val ELSE <<"N", "o", "n", "e">>

FormatSpaced(name, b) == PyStr(name) \o <<" ", "@", " ">> \o IntStr(b)

Format(name, b) == PyStr(name) \o <<"@">> \o IntStr(b)

ToolName(p) ==
    IF p = "cpick" THEN <<"c", "p", "i", "c", "k">>
    ELSE <<"q", "u", "i", "c", "k", "p", "i", "c", "k">>

\* The args list handed to subprocess.Popen for Range r.
PopenArgs(p, name, t, le, r) == <<ToolName(p), Format(name, Offset(t, le, r))>>

(***************************************************************************)
(* Line 9: last = sel[len(sel) - 1].  Selection.__getitem__ raises         *)
(* IndexError for an index outside the selection; an index of -1 on an     *)
(* empty selection is outside it.                                          *)
(***************************************************************************)
SelGetItemOffByOne(s, idx) ==
    LET j == idx + 1
    IN  IF j < 0 \/ j >= Len(s) THEN [ok |-> FALSE, val |-> [a |-> -1, b |-> -1]]
        ELSE [ok |-> TRUE, val |-> s[j + 1]]

SelGetItem(s, idx) ==
    LET j == IF idx < 0 THEN idx + Len(s) ELSE idx
    IN  IF j < 0 \/ j >= Len(s) THEN [ok |-> FALSE, val |-> [a |-> -1, b |-> -1]]
        ELSE [ok |-> TRUE, val |-> s[j + 1]]

(***************************************************************************)
(* Line 10: for r in sel -- a fresh iteration from the first Range, in     *)
(* selection order.                                                        *)
(***************************************************************************)
LoopStartRetained == IF result = "OSError" THEN Len(attempts) + 1 ELSE 1

LoopStart == 1

ForItemReversed(s, k) == s[Len(s) + 1 - k]

ForItem(s, k) == s[k]

(***************************************************************************)
(* Line 15: p = subprocess.Popen([tool, target], shell=True).              *)
(* Popen returns as soon as the shell is started: nothing in run waits     *)
(* for, polls or reads from a process it started.  An exception raised by  *)
(* Popen is not caught: it leaves run.                                     *)
(***************************************************************************)
SpawnWaitsForAll(ps) == {k \in DOMAIN ps : ps[k] = "running"}

SpawnWaitsFor(ps) == {}

PropagatesNever(raised) == FALSE

Propagates(raised) == raised

(***************************************************************************)
(* What shell=True does with an args list.                                 *)
(*   posix: the child is  /bin/sh -c args[0] args[1] ... : the shell runs  *)
(*          the command string args[0] and the remaining items become the  *)
(*          shell's own $0, $1, ...; the tool is started with no argument. *)
(*   nt:    args is joined by list2cmdline and run by  cmd.exe /c ; the    *)
(*          tool's C runtime splits the command line again.                *)
(***************************************************************************)
Quote == "\""

NeedQuote(arg) == arg = <<>> \/ \E k \in DOMAIN arg : arg[k] \in {" ", "\t"}

RECURSIVE List2Cmdline(_)
List2Cmdline(args) ==
    IF args = <<>> THEN <<>>
    ELSE LET arg == Head(args)
             one == IF NeedQuote(arg) THEN <<Quote>> \o arg \o <<Quote>> ELSE arg
         IN  IF Len(args) = 1 THEN one
             ELSE one \o <<" ">> \o List2Cmdline(Tail(args))

\* Splitting a command line at unquoted blanks, dropping the quotes.
RECURSIVE SplitCmdline(_, _, _, _)
SplitCmdline(cs, cur, inq, open) ==
    IF cs = <<>> THEN (IF open THEN <<cur>> ELSE <<>>)
    ELSE LET c == Head(cs)
         IN  IF c = Quote THEN SplitCmdline(Tail(cs), cur, ~inq, TRUE)
             ELSE IF c \in {" ", "\t"} /\ ~inq
                  THEN (IF open THEN <<cur>> ELSE <<>>)
                       \o SplitCmdline(Tail(cs), <<>>, FALSE, FALSE)
             ELSE SplitCmdline(Tail(cs), Append(cur, c), inq, TRUE)

\* The arguments (after the program name) the tool process is started with.
ToolArgs(os, args) ==
    IF os = "posix" THEN <<>>
    ELSE Tail(SplitCmdline(List2Cmdline(args), <<>>, FALSE, FALSE))

(***************************************************************************)
(* The state after construction: a view with a buffer, a selection, a      *)
(* line-ending convention and a file name; no invocation has run.          *)
(* Two families of hosts are enumerated: every document and selection on   *)
(* one host configuration, and every host configuration on one document.   *)
(***************************************************************************)
DocInit ==
    /\ text \in Texts
    /\ osName = "posix"
    /\ plugin = "cpick"
    /\ toolOnPath = TRUE
    /\ fileName = Some(<<"/", "f">>)

HostInit ==
    /\ text = SampleText
    /\ osName \in {"posix", "nt"}
    /\ plugin \in {"cpick", "quickpick"}
    /\ toolOnPath \in BOOLEAN
    /\ fileName \in FileNames

Init ==
    /\ DocInit \/ HostInit
    /\ lineEndings \in LineEndings
    /\ sel \in Selections(Len(text))
    /\ pc = "idle"
    /\ i = 0
    /\ attempts = <<>>
    /\ procs = <<>>
    /\ result = "none"
    /\ prev = [result |-> "none", attempts |-> <<>>, host |-> host]

(***************************************************************************)
(* Lines 6-9: the host dispatches the command; run reads the selection     *)
(* and its last element.                                                   *)
(***************************************************************************)
Invoke ==
    /\ pc = "idle"
    /\ prev' = [result |-> result, attempts |-> attempts, host |-> host]
    /\ attempts' = <<>>
    /\ procs' = <<>>
    /\ IF SelGetItem(sel, Len(sel) - 1).ok
       THEN /\ pc' = "loop"
            /\ i' = LoopStart
            /\ result' = "none"
       ELSE /\ pc' = "idle"
            /\ i' = 0
            /\ result' = "IndexError"
    /\ UNCHANGED host

(***************************************************************************)
(* Lines 10-15: one iteration of the loop, ending with the Popen call.     *)
(***************************************************************************)
Iterate ==
    /\ pc = "loop"
    /\ i <= Len(sel)
    /\ SpawnWaitsFor(procs) = {}
    /\ \E raised \in BOOLEAN :
         /\ attempts' = Append(attempts,
                [args |-> PopenArgs(plugin, fileName, text, lineEndings, ForItem(sel, i)),
                 shell |-> TRUE,
                 raised |-> raised])
         /\ procs' = IF raised THEN procs ELSE Append(procs, "running")
         /\ IF Propagates(raised)
            THEN /\ pc' = "idle"
                 /\ i' = 0
                 /\ result' = "OSError"
            ELSE /\ pc' = "loop"
                 /\ i' = i + 1
                 /\ result' = result
    /\ UNCHANGED <<host, prev>>

(***************************************************************************)
(* Line 10, the selection is exhausted: run returns.                       *)
(***************************************************************************)
Return ==
    /\ pc = "loop"
    /\ i > Len(sel)
    /\ pc' = "idle"
    /\ i' = 0
    /\ result' = "returned"
    /\ UNCHANGED <<host, attempts, procs, prev>>

(***************************************************************************)
(* A started process (the shell running the tool) ends on its own: with    *)
(* status 127 when the shell cannot find or execute the tool.              *)
(***************************************************************************)
ProcExit ==
    \E k \in DOMAIN procs :
        /\ procs[k] = "running"
        /\ procs' = [procs EXCEPT ![k] = IF toolOnPath THEN "exit0" ELSE "exit127"]
        /\ UNCHANGED <<host, pc, i, attempts, result, prev>>

RunStep == Iterate \/ Return

Next == Invoke \/ Iterate \/ Return \/ ProcExit

Spec == Init /\ [][Next]_vars

\* The host runs a dispatched command to its end; nothing obliges a started
\* process to end, nor the user to invoke the command again.
FairSpec == Init /\ [][Next]_vars /\ WF_vars(RunStep)

(***************************************************************************)
(* The loop of lines 10-15 as a function: what run does when line 9 (the   *)
(* read of the last element) is removed, the Popen call for Range raiseAt  *)
(* raising (raiseAt = 0: none raises).                                     *)
(***************************************************************************)
RECURSIVE LoopFrom(_, _, _)
LoopFrom(k, acc, raiseAt) ==
    IF k > Len(sel) THEN [result |-> "returned", attempts |-> acc]
    ELSE LET att == [args |-> PopenArgs(plugin, fileName, text, lineEndings, ForItem(sel, k)),
                     shell |-> TRUE,
                     raised |-> (k = raiseAt)]
         IN  IF Propagates(k = raiseAt)
             THEN [result |-> "OSError", attempts |-> Append(acc, att)]
             ELSE LoopFrom(k + 1, Append(acc, att), raiseAt)

RunWithoutRead(raiseAt) == LoopFrom(LoopStart, <<>>, raiseAt)

(***************************************************************************)
(* Reading a launch target back: the text before its last '@', and the     *)
(* number written after it.                                                *)
(***************************************************************************)
HasAt(t) == \E k \in DOMAIN t : t[k] = "@"

LastAt(t) == CHOOSE k \in DOMAIN t : t[k] = "@" /\ \A j \in (k + 1)..Len(t) : t[j] # "@"

TargetPath(t) == SubSeq(t, 1, LastAt(t) - 1)

TargetDigits(t) == SubSeq(t, LastAt(t) + 1, Len(t))

IsDigit(c) == \E d \in 1..10 : Digits[d] = c

IsDecimal(ds) ==
    /\ ds # <<>>
    /\ \A k \in DOMAIN ds : IsDigit(ds[k])
    /\ Len(ds) > 1 => ds[1] # "0"

DigitVal(c) == (CHOOSE d \in 1..10 : Digits[d] = c) - 1

RECURSIVE ParseDec(_)
ParseDec(ds) ==
    IF ds = <<>> THEN 0
    ELSE 10 * ParseDec(SubSeq(ds, 1, Len(ds) - 1)) + DigitVal(ds[Len(ds)])

Target(k) == attempts[k].args[2]

TargetOffset(k) == ParseDec(TargetDigits(Target(k)))

Finished == pc = "idle" /\ result # "none"

ArgsOf(as) == [k \in DOMAIN as |-> as[k].args]

RaisedAt ==
    IF \E k \in DOMAIN attempts : attempts[k].raised
    THEN CHOOSE k \in DOMAIN attempts : attempts[k].raised
    ELSE 0

\* The byte offset of buffer position b in the file as stored (UTF-8, no
\* byte-order mark) under line-ending convention le.
Utf8Len(c) == IF c = Wide THEN 2 ELSE 1

RECURSIVE FileByteOffset(_, _, _)
FileByteOffset(t, le, b) ==
    IF b = 0 THEN 0
    ELSE FileByteOffset(t, le, b - 1)
         + (IF t[b] = NL THEN (IF le = "Windows" THEN 2 ELSE 1) ELSE Utf8Len(t[b]))

(***************************************************************************)
(* C1.  For every Range, with anchor b and row r as the host reports it    *)
(* for the unadjusted b, the offset written into the launch target is      *)
(* b + r under Windows line endings and b under every other convention;    *)
(* each Range is adjusted on its own.                                      *)
(***************************************************************************)
C1_OffsetRule ==
    \A k \in DOMAIN attempts :
        LET b == sel[k].a
            r == RowCol(text, b)[1]
        IN  /\ HasAt(Target(k))
            /\ IsDecimal(TargetDigits(Target(k)))
            /\ TargetOffset(k) = (IF lineEndings = "Windows" THEN b + r ELSE b)

C1_Witness ==
    /\ lineEndings = "Windows"
    /\ Len(attempts) >= 2
    /\ RowCol(text, sel[1].a)[1] >= 1
    /\ RowCol(text, sel[2].a)[1] > RowCol(text, sel[1].a)[1]

(***************************************************************************)
(* C2 as stated.  A finished invocation on n Ranges has made exactly n     *)
(* spawn attempts, the k-th carrying the launch target of the k-th Range.  *)
(***************************************************************************)
C2_ExactlyOneSpawnPerRange ==
    Finished =>
        /\ Len(attempts) = Len(sel)
        /\ \A k \in DOMAIN attempts :
              attempts[k].args =
                  <<ToolName(plugin), Format(fileName, Offset(text, lineEndings, sel[k]))>>

(***************************************************************************)
(* C2 amended.  The spawn attempts are those of the first m Ranges, in     *)
(* selection order, none skipped or repeated; m = n when run returns, and  *)
(* m is the index of the Popen call that raised when run ends with that    *)
(* error.                                                                  *)
(***************************************************************************)
C2_SpawnsFollowSelection ==
    /\ Len(attempts) <= Len(sel)
    /\ \A k \in DOMAIN attempts :
          attempts[k].args =
              <<ToolName(plugin), Format(fileName, Offset(text, lineEndings, sel[k]))>>
    /\ (pc = "loop") => Len(attempts) = i - 1
    /\ (Finished /\ result = "returned") => Len(attempts) = Len(sel)
    /\ (Finished /\ result = "OSError") =>
          /\ attempts # <<>>
          /\ attempts[Len(attempts)].raised
          /\ \A k \in 1..(Len(attempts) - 1) : ~attempts[k].raised
    /\ (Finished /\ result = "IndexError") => (attempts = <<>> /\ sel = <<>>)

C2_Witness ==
    /\ Finished
    /\ result = "returned"
    /\ Len(sel) >= 2
    /\ Len(attempts) = Len(sel)
    /\ Target(1) # Target(2)

(***************************************************************************)
(* C3.  Every started tool process receives the launch target as its one   *)
(* command-line argument.                                                  *)
(***************************************************************************)
C3_ToolGetsTargetAsSoleArgument ==
    \A k \in DOMAIN attempts :
        ~attempts[k].raised => ToolArgs(osName, attempts[k].args) = <<Target(k)>>

(***************************************************************************)
(* C4.  For a document with a path, the launch target is the path, one     *)
(* '@', and the offset in decimal: nothing before, between or after.       *)
(***************************************************************************)
C4_TargetIsPathAtOffset ==
    fileName.some =>
        \A k \in DOMAIN attempts :
            /\ HasAt(Target(k))
            /\ TargetPath(Target(k)) = fileName.val
            /\ IsDecimal(TargetDigits(Target(k)))
            /\ TargetOffset(k) = Offset(text, lineEndings, sel[k])
            /\ Len(Target(k)) = Len(fileName.val) + 1 + Len(TargetDigits(Target(k)))

C4_Witness ==
    /\ fileName.some
    /\ \E k \in DOMAIN attempts : Len(TargetDigits(Target(k))) = 2

(***************************************************************************)
(* C5.  The offset in the launch target is the byte offset of the anchor   *)
(* in the file as stored.                                                  *)
(***************************************************************************)
C5_OffsetIsFileByteOffset ==
    \A k \in DOMAIN attempts :
        TargetOffset(k) = FileByteOffset(text, lineEndings, sel[k].a)

(***************************************************************************)
(* C6 as stated.  A spawn attempt that fails, an error raised by the       *)
(* spawn call included, does not keep the later Ranges from being          *)
(* attempted.                                                              *)
(***************************************************************************)
C6_FailedSpawnDoesNotBlock ==
    \A k \in DOMAIN attempts :
        (attempts[k].raised /\ k < Len(sel)) => pc = "loop"

(***************************************************************************)
(* C6 amended.  A tool the shell cannot find or execute shows only in the  *)
(* exit status of its process, which run never reads: the next Range is    *)
(* attempted whatever the status of the earlier processes.  An error       *)
(* raised by the Popen call leaves run: that attempt is the last one.      *)
(***************************************************************************)
C6_OnlyRaisedSpawnEndsRun ==
    /\ \A k \in DOMAIN attempts :
          attempts[k].raised =>
              (k = Len(attempts) /\ pc = "idle" /\ result = "OSError")
    /\ (pc = "loop" /\ i <= Len(sel)) => ENABLED Iterate
    /\ (Finished /\ RaisedAt = 0 /\ sel # <<>>) =>
          (result = "returned" /\ Len(attempts) = Len(sel))

C6_Witness ==
    /\ Finished
    /\ Len(sel) >= 3
    /\ Len(attempts) = 2
    /\ attempts[2].raised
    /\ procs[1] = "exit127"

(***************************************************************************)
(* C7 as stated.  Every invocation returns after the spawn for the last    *)
(* Range, with no assumption that any started process ever ends.           *)
(***************************************************************************)
C7_RunReturnsAfterLastSpawn ==
    (pc = "loop") ~> (pc = "idle" /\ result = "returned" /\ Len(attempts) = Len(sel))

(***************************************************************************)
(* C7 amended.  run does not wait for the processes it starts: with no     *)
(* assumption that any started process ever ends, every invocation that    *)
(* enters the loop ends, either returning after the spawn for the last     *)
(* Range or leaving with the error raised by a Popen call, after that      *)
(* attempt.                                                                *)
(***************************************************************************)
C7_RunEndsWithoutWaiting ==
    (pc = "loop") ~>
        /\ pc = "idle"
        /\ \/ result = "returned" /\ Len(attempts) = Len(sel) /\ RaisedAt = 0
           \/ result = "OSError" /\ RaisedAt = Len(attempts)

C7_Witness ==
    /\ Finished
    /\ result = "returned"
    /\ Len(procs) >= 2
    /\ \A k \in DOMAIN procs : procs[k] = "running"

(***************************************************************************)
(* C8 as stated.  Two invocations on the same document and selection make  *)
(* the same sequence of spawns.                                            *)
(***************************************************************************)
C8_SameSpawnsEveryInvocation ==
    (Finished /\ prev.result # "none") =>
        /\ prev.host = host
        /\ ArgsOf(prev.attempts) = ArgsOf(attempts)

(***************************************************************************)
(* C8 amended.  An invocation changes nothing of the document, selection,  *)
(* path or line endings, and keeps nothing for the next one: of two        *)
(* invocations on the same document and selection, the k-th spawn of one   *)
(* is the k-th spawn of the other as far as both get, and two that both    *)
(* return make the same sequence of spawns.                                *)
(***************************************************************************)
C8_SpawnsDependOnInputsOnly ==
    /\ prev.host = host
    /\ (Finished /\ prev.result # "none") =>
          /\ \A k \in DOMAIN attempts \cap DOMAIN prev.attempts :
                attempts[k].args = prev.attempts[k].args
          /\ (result = "returned" /\ prev.result = "returned") =>
                ArgsOf(prev.attempts) = ArgsOf(attempts)
          /\ (result = "IndexError") <=> (prev.result = "IndexError")

C8_Witness ==
    /\ Finished
    /\ result = "returned"
    /\ prev.result = "returned"
    /\ Len(attempts) >= 2
    /\ Len(prev.attempts) >= 2

(***************************************************************************)
(* C9 as stated.  On a document without a path and a non-empty selection   *)
(* the command does not fail and makes one spawn attempt per Range, each   *)
(* with target None@<offset>.                                              *)
(***************************************************************************)
C9_PathlessNeverFails ==
    (~fileName.some /\ sel # <<>> /\ Finished) =>
        /\ result = "returned"
        /\ Len(attempts) = Len(sel)
        /\ \A k \in DOMAIN attempts :
              Target(k) = <<"N", "o", "n", "e", "@">> \o IntStr(Offset(text, lineEndings, sel[k]))

(***************************************************************************)
(* C9 amended.  On a document without a path the absent path is written    *)
(* as None and nothing fails on its account: every target is              *)
(* None@<offset>, with the offset of a saved document, and run ends as it  *)
(* does for a saved document: it returns after one attempt per Range,      *)
(* unless a Popen call raises.                                             *)
(***************************************************************************)
C9_PathlessRunsAsSaved ==
    (~fileName.some /\ sel # <<>>) =>
        /\ \A k \in DOMAIN attempts :
              /\ HasAt(Target(k))
              /\ TargetPath(Target(k)) = <<"N", "o", "n", "e">>
              /\ IsDecimal(TargetDigits(Target(k)))
              /\ TargetOffset(k) = Offset(text, lineEndings, sel[k])
        /\ Finished =>
              \/ result = "returned" /\ Len(attempts) = Len(sel)
              \/ result = "OSError" /\ attempts[Len(attempts)].raised

C9_Witness ==
    /\ ~fileName.some
    /\ Finished
    /\ result = "returned"
    /\ Len(attempts) >= 2

(***************************************************************************)
(* C10 as stated.  For every selection, run ends as it would without the   *)
(* read of the last element: same spawn attempts, same completion.         *)
(***************************************************************************)
C10_ReadIsDead ==
    Finished =>
        [result |-> result, attempts |-> attempts] = RunWithoutRead(RaisedAt)

(***************************************************************************)
(* C10 amended.  For a non-empty selection the read changes nothing.  For  *)
(* an empty selection it raises IndexError, where the command without it   *)
(* returns normally; no spawn is attempted either way.                     *)
(***************************************************************************)
C10_ReadMattersOnlyWhenEmpty ==
    Finished =>
        IF sel # <<>>
        THEN [result |-> result, attempts |-> attempts] = RunWithoutRead(RaisedAt)
        ELSE /\ result = "IndexError"
             /\ attempts = <<>>
             /\ RunWithoutRead(0) = [result |-> "returned", attempts |-> <<>>]

C10_Witness ==
    /\ Finished
    /\ Len(sel) >= 2
    /\ result = "returned"
    /\ Len(attempts) = Len(sel)
    /\ RaisedAt = 0

====
